---- MODULE Spec2Model ----
(***************************************************************************)
(* A model of the Roomy SDK (src/src/index.ts, src/src/components.ts):     *)
(* the component catalog, the entity-wrapper hierarchy, EntityList and its  *)
(* asynchronous items(), the sidebar discrimination, the Reactions codec    *)
(* and the admin-union helper.                                             *)
(*                                                                         *)
(* JavaScript strings are sequences of fragments: <<"a", " ", "b">> is     *)
(* "a b".  A fragment is one character, or a word none of whose characters *)
(* occurs as a fragment of its own ("constructor"), so that two different  *)
(* sequences are always two different strings.                             *)
(***************************************************************************)
EXTENDS Integers, Sequences, FiniteSets, TLC

VARIABLES
  op,      \* the most recent call
  raised,  \* whether that call raised
  value,   \* what it returned, or the fault it raised
  w,       \* the wrapper the program holds; the receiver of the next call
  store,   \* store[e][id]: the component stored under identifier id on entity e
  pending  \* the items() call in flight, or the last one that settled

vars == <<op, raised, value, w, store, pending>>

----------------------------------------------------------------------------
(* Bounds of the model *)

\* longest list a push/insert/append may produce
MaxLen == 3

\* entity handles opened from the peer
Entities == {"e1", "e2"}

\* Leaf peers (document-store connections)
Peers == {"p1", "p2"}

\* the string form of an entity ID
IdStr(e) == <<e>>

Undefined == <<"<undefined>">>

----------------------------------------------------------------------------
(* The component catalog, src/src/components.ts *)

BasicMeta == [name |-> "BasicMeta", id |-> "name:01JPE9PEBF47QJR6THNW4J4JXJ", kind |-> "LoroMap"]
ReplyTo == [name |-> "ReplyTo", id |-> "replyTo:01JPFR9RXR4BECAMCEH0M8XPQY", kind |-> "LoroMap"]
SoftDeleted == [name |-> "SoftDeleted", id |-> "softDeleted:01JPFQK63H9W2RA8Q5GQ19S1DY", kind |-> "Marker"]
ImageUri == [name |-> "ImageUri", id |-> "imageUri:01JPFRMSYWE2G0JHMS7RW478G3", kind |-> "LoroMap"]
Images == [name |-> "Images", id |-> "spaces:01JPE97AYAJSDP0NRAH79S9792", kind |-> "LoroMovableList"]
Spaces == [name |-> "Spaces", id |-> "spaces:01JPE97AYAJSDP0NRAH79S9792", kind |-> "LoroMovableList"]
Collection == [name |-> "Collection", id |-> "collection:01JPEB6RBRYDG7CJWX74RK324E", kind |-> "LoroMovableList"]
Channels == [name |-> "Channels", id |-> "channels:01JPFMTA2QAFY2D3CV1C0YBZQ9", kind |-> "LoroMovableList"]
Threads == [name |-> "Threads", id |-> "threads:01JPEB05824ZR836QMV6B3E69F", kind |-> "LoroMovableList"]
Messages == [name |-> "Messages", id |-> "messages:01JPEAH76WBQ4XYZQZT7MQT19V", kind |-> "LoroMovableList"]
AuthorUris == [name |-> "AuthorUris", id |-> "authorUris:01JPEBV8TJ8YCXXYD156NJSR5Y", kind |-> "LoroMovableList"]
Content == [name |-> "Content", id |-> "content:01JPEBQARGPD0BQV7DYGC9TR5Z", kind |-> "LoroText"]
SpaceSidebarNavigation == [name |-> "SpaceSidebarNavigation", id |-> "spaceSidebarNavigation:01JPFMBD0XT7B922PSQ7KQ99EW", kind |-> "LoroMovableList"]
Admins == [name |-> "Admins", id |-> "admins:01JPRKX4FVJ7GYV9AHRN12SSB2", kind |-> "LoroMovableList"]
ReactionsComponent == [name |-> "Reactions", id |-> "reactions:01JPFTQACDW0KM3857XWER87RR", kind |-> "LoroList"]
ChannelAnnouncement == [name |-> "ChannelAnnouncement", id |-> "channelAnnouncement:01JPFTN90MGBMBCMCNJ4V65YF2", kind |-> "LoroMap"]

Catalog ==
  { BasicMeta, ReplyTo, SoftDeleted, ImageUri, Images, Spaces, Collection,
    Channels, Threads, Messages, AuthorUris, Content, SpaceSidebarNavigation,
    Admins, ReactionsComponent, ChannelAnnouncement }

CompIds == { d.id : d \in Catalog }

----------------------------------------------------------------------------
(* The Leaf entity handle and the Loro containers (interface contract)      *)

\* no entity has a component: store[e] maps the identifiers of the components
\* present on e to their containers
EmptyStore == [e \in Entities |-> <<>>]

\* entity.has(def)
Has(s, e, def) == def.id \in DOMAIN s[e]

\* the store with container v under identifier id on entity e
Put(s, e, id, v) ==
  [s EXCEPT ![e] = [c \in DOMAIN @ \cup {id} |-> IF c = id THEN v ELSE @[c]]]

\* the container a component is materialized with: the schema's initializer
\* run on an empty container (BasicMeta alone declares one)
InitialValue(def) ==
  IF def.name = "BasicMeta" THEN [name |-> <<"Unnamed">>] ELSE <<>>

\* entity.getOrInit(def): the store with the component materialized if absent
GetOrInit(s, e, def) == IF Has(s, e, def) THEN s ELSE Put(s, e, def.id, InitialValue(def))

\* entity.init(def): a no-op on a component that is present
EntityInit(s, e, def) == IF Has(s, e, def) THEN s ELSE Put(s, e, def.id, InitialValue(def))

\* entity.commit(): flushes to the document store, the in-memory entity stays
EntityCommit(s, e) == s

\* map.get(key), undefined for a field never set
MapGet(map, key) == IF key \in DOMAIN map THEN map[key] ELSE <<"<undefined>">>

\* map.set(key, v)
MapSet(map, key, v) == [k \in DOMAIN map \cup {key} |-> IF k = key THEN v ELSE map[k]]

\* entity.delete(def): a no-op on a component that is absent
EntityDelete(s, e, def) ==
  [s EXCEPT ![e] = [c \in DOMAIN @ \ {def.id} |-> @[c]]]

\* the container of a component that is present
Val(s, e, def) == s[e][def.id]

\* the entries of a list component, none when it is absent
Contents(s, e, def) == IF Has(s, e, def) THEN Val(s, e, def) ELSE <<>>

\* the store with the container of a present component replaced
WithVal(s, e, def, v) == [s EXCEPT ![e][def.id] = v]

\* list.toArray().includes(x)
ListIncludes(l, x) == \E i \in DOMAIN l : l[i] = x

\* list.toArray().indexOf(x), zero-based, -1 when absent
IndexOf(l, x) ==
  IF ListIncludes(l, x)
  THEN (CHOOSE i \in DOMAIN l : l[i] = x /\ \A j \in 1..(i - 1) : l[j] # x) - 1
  ELSE -1

\* list.push(x)
ListPush(l, x) == Append(l, x)

\* list.insert(index, x), zero-based
ListInsert(l, index, x) == SubSeq(l, 1, index) \o <<x>> \o SubSeq(l, index + 1, Len(l))

\* list.delete(index, n), zero-based
ListDelete(l, index, n) == SubSeq(l, 1, index) \o SubSeq(l, index + n + 1, Len(l))

\* movableList.move(from, to), zero-based
ListMove(l, from, to) == ListInsert(ListDelete(l, from, 1), to, l[from + 1])

----------------------------------------------------------------------------
(* JavaScript strings and objects *)

\* str.includes(" ")
HasSpace(str) == \E i \in DOMAIN str : str[i] = " "

\* the position of the first space of a string that has one
FirstSpace(str) == CHOOSE i \in DOMAIN str : str[i] = " " /\ \A j \in 1..(i - 1) : str[j] # " "

RECURSIVE Split(_)
\* str.split(" "): the pieces between the spaces, all of them
Split(str) ==
  IF ~HasSpace(str) THEN <<str>>
  ELSE <<SubSeq(str, 1, FirstSpace(str) - 1)>>
         \o Split(SubSeq(str, FirstSpace(str) + 1, Len(str)))

\* property names every object literal {} inherits from Object.prototype
ObjectPrototypeKeys ==
  { <<"constructor">>, <<"__proto__">>, <<"hasOwnProperty">>, <<"isPrototypeOf">>,
    <<"propertyIsEnumerable">>, <<"toLocaleString">>, <<"toString">>, <<"valueOf">>,
    <<"__defineGetter__">>, <<"__defineSetter__">>, <<"__lookupGetter__">>,
    <<"__lookupSetter__">> }

----------------------------------------------------------------------------
(* Call outcomes *)

Return(s, v) == [store |-> s, raised |-> FALSE, value |-> v]

Throw(s, msg) == [store |-> s, raised |-> TRUE, value |-> msg]

\* the step of the program that makes call name on the wrapper it holds, with
\* outcome r, and holds wrapper nw afterwards
Call(name, r, nw) ==
  /\ op' = name
  /\ raised' = r.raised
  /\ value' = r.value
  /\ w' = nw
  /\ store' = r.store
  /\ UNCHANGED pending

----------------------------------------------------------------------------
(* The wrapper hierarchy, src/src/index.ts *)

Parent ==
  [ EntityWrapper |-> "HasPeer", Deletable |-> "EntityWrapper",
    Administered |-> "Deletable", NamedEntity |-> "Administered",
    EntityList |-> "EntityWrapper", Roomy |-> "EntityWrapper",
    Space |-> "NamedEntity", SidebarItem |-> "NamedEntity",
    Category |-> "SidebarItem", Channel |-> "SidebarItem",
    TimelineItem |-> "Deletable", Reactions |-> "EntityWrapper",
    Message |-> "TimelineItem", Announcement |-> "TimelineItem",
    Image |-> "Deletable" ]

Kinds == DOMAIN Parent

RECURSIVE IsA(_, _)
\* class k is class c or extends it
IsA(k, c) == k = c \/ (k \in Kinds /\ IsA(Parent[k], c))

NoDef == [name |-> "undefined", id |-> "undefined", kind |-> "undefined"]

\* new constructor(peer, entity)
New(k, p, e) == [kind |-> k, peer |-> p, entity |-> e, def |-> NoDef, factory |-> "undefined"]

\* new EntityList(peer, entity, component, constructor)
NewEntityList(p, e, component, constructor) ==
  [kind |-> "EntityList", peer |-> p, entity |-> e, def |-> component, factory |-> constructor]

\* wrapper.id
Id(self) == IdStr(self.entity)

\* Roomy.init(peer, catalogId)
RoomyInit(s, p, catalogId) == Return(s, New("Roomy", p, catalogId))

\* HasPeer.open(constructor, id)
Open(s, self, constructor, id) == Return(s, New(constructor, self.peer, id))

\* cast with a capability check: a Channel only over an entity with Messages
CastChecked(s, self, constructor) ==
  IF constructor = "Channel" /\ ~Has(s, self.entity, Messages)
  THEN Throw(s, "not a channel")
  ELSE Return(s, New(constructor, self.peer, self.entity))

\* EntityWrapper.cast(constructor)
Cast(s, self, constructor) == Return(s, New(constructor, self.peer, self.entity))

\* get Deletable.softDeleted
GetSoftDeleted(s, self) == Return(s, Has(s, self.entity, SoftDeleted))

\* the setter with its else branch lost: false does not delete the marker
SetSoftDeletedNoClear(s, self, deleted) ==
  IF deleted
  THEN Return(EntityInit(s, self.entity, SoftDeleted), Undefined)
  ELSE Return(s, Undefined)

\* set Deletable.softDeleted
SetSoftDeleted(s, self, deleted) ==
  IF deleted
  THEN Return(EntityInit(s, self.entity, SoftDeleted), Undefined)
  ELSE Return(EntityDelete(s, self.entity, SoftDeleted), Undefined)

\* Administered.admins.push(uri): a write to the raw list the getter returns
AdminsPush(s, self, uri) ==
  LET s1 == GetOrInit(s, self.entity, Admins)
  IN Return(WithVal(s1, self.entity, Admins, ListPush(Val(s1, self.entity, Admins), uri)),
            Undefined)

RECURSIVE AppendLoop(_, _, _, _, _)
\* the for loop of appendAdminsFrom from entry i of the source array on
AppendLoop(s, self, source, i, currentAdmins) ==
  IF i > Len(source) THEN s
  ELSE IF ~ListIncludes(currentAdmins, source[i])
  THEN LET s1 == GetOrInit(s, self.entity, Admins)
       IN AppendLoop(WithVal(s1, self.entity, Admins,
                             ListPush(Val(s1, self.entity, Admins), source[i])),
                     self, source, i + 1, currentAdmins)
  ELSE AppendLoop(s, self, source, i + 1, currentAdmins)

\* Administered.appendAdminsFrom(other)
AppendAdminsFrom(s, self, other) ==
  LET s1 == GetOrInit(s, self.entity, Admins)
      currentAdmins == Val(s1, self.entity, Admins)
      s2 == GetOrInit(s1, other.entity, Admins)
  IN Return(AppendLoop(s2, self, Val(s2, other.entity, Admins), 1, currentAdmins), Undefined)

\* get Roomy.spaces
GetSpaces(s, self) == Return(s, NewEntityList(self.peer, self.entity, Spaces, "Space"))

\* get Message.images
GetImages(s, self) == Return(s, NewEntityList(self.peer, self.entity, Images, "Image"))

\* EntityList.ids()
EntityListIds(s, self) ==
  LET s1 == GetOrInit(s, self.entity, self.def)
  IN Return(s1, Val(s1, self.entity, self.def))

\* EntityList.push(item)
EntityListPush(s, self, item) ==
  LET s1 == GetOrInit(s, self.entity, self.def)
  IN Return(WithVal(s1, self.entity, self.def,
                    ListPush(Val(s1, self.entity, self.def), IdStr(item.entity))), Undefined)

\* EntityList.insert(index, item)
EntityListInsert(s, self, index, item) ==
  LET s1 == GetOrInit(s, self.entity, self.def)
  IN Return(WithVal(s1, self.entity, self.def,
                    ListInsert(Val(s1, self.entity, self.def), index, IdStr(item.entity))),
            Undefined)

\* remove that deletes every entry holding the ID found at itemIdx
EntityListRemoveAll(s, self, itemIdx) ==
  LET s1 == GetOrInit(s, self.entity, self.def)
      l == Val(s1, self.entity, self.def)
  IN Return(WithVal(s1, self.entity, self.def,
                    SelectSeq(l, LAMBDA x : x # l[itemIdx + 1])), Undefined)

\* EntityList.remove(itemIdx)
EntityListRemove(s, self, itemIdx) ==
  LET s1 == GetOrInit(s, self.entity, self.def)
  IN Return(WithVal(s1, self.entity, self.def,
                    ListDelete(Val(s1, self.entity, self.def), itemIdx, 1)), Undefined)

\* move with its two indices exchanged
EntityListMoveSwapped(s, self, itemIdx, newIdx) ==
  LET s1 == GetOrInit(s, self.entity, self.def)
  IN IF self.def.kind = "LoroMovableList"
     THEN Return(WithVal(s1, self.entity, self.def,
                         ListMove(Val(s1, self.entity, self.def), newIdx, itemIdx)), Undefined)
     ELSE Throw(s1, "Cannot use move function in an immovable list.")

\* move that returns quietly on a list that is not movable
EntityListMoveSilent(s, self, itemIdx, newIdx) ==
  LET s1 == GetOrInit(s, self.entity, self.def)
  IN IF self.def.kind = "LoroMovableList"
     THEN Return(WithVal(s1, self.entity, self.def,
                         ListMove(Val(s1, self.entity, self.def), itemIdx, newIdx)), Undefined)
     ELSE Return(s1, Undefined)

\* EntityList.move(itemIdx, newIdx)
EntityListMove(s, self, itemIdx, newIdx) ==
  LET s1 == GetOrInit(s, self.entity, self.def)
  IN IF self.def.kind = "LoroMovableList"
     THEN Return(WithVal(s1, self.entity, self.def,
                         ListMove(Val(s1, self.entity, self.def), itemIdx, newIdx)), Undefined)
     ELSE Throw(s1, "Cannot use move function in an immovable list.")

\* get TimelineItem.reactions
GetReactions(s, self) == Cast(s, self, "Reactions")

\* `${reaction} ${authorId}`
Pack(reaction, authorId) == reaction \o <<" ">> \o authorId

RECURSIVE AllLoop(_, _, _)
\* the for loop of Reactions.all() from entry i on, reactions being the object
\* built so far (a function from its own property names to sets of users)
AllLoop(list, i, reactions) ==
  IF i > Len(list) THEN [raised |-> FALSE, value |-> reactions]
  ELSE LET parts == Split(list[i])
           reaction == parts[1]
           user == IF Len(parts) >= 2 THEN parts[2] ELSE Undefined
       IN IF reaction \in DOMAIN reactions
          THEN AllLoop(list, i + 1, [reactions EXCEPT ![reaction] = @ \cup {user}])
          ELSE IF reaction \in ObjectPrototypeKeys
          THEN [raised |-> TRUE, value |-> "TypeError: reactions[reaction].add is not a function"]
          ELSE AllLoop(list, i + 1,
                       [k \in DOMAIN reactions \cup {reaction} |->
                          IF k = reaction THEN {user} ELSE reactions[k]])

\* Reactions.all()
ReactionsAll(s, self) ==
  LET s1 == GetOrInit(s, self.entity, ReactionsComponent)
      r == AllLoop(Val(s1, self.entity, ReactionsComponent), 1, <<>>)
  IN IF r.raised THEN Throw(s1, r.value) ELSE Return(s1, r.value)

\* add without the includes test
ReactionsAddNoDedup(s, self, reaction, authorId) ==
  IF HasSpace(reaction) \/ HasSpace(authorId)
  THEN Throw(s, "Error: Reaction and Author ID must not contain spaces.")
  ELSE LET s1 == GetOrInit(s, self.entity, ReactionsComponent)
       IN Return(WithVal(s1, self.entity, ReactionsComponent,
                         ListPush(Val(s1, self.entity, ReactionsComponent),
                                  Pack(reaction, authorId))), Undefined)

\* add that fetches the component before it validates its arguments
ReactionsAddInitFirst(s, self, reaction, authorId) ==
  LET s1 == GetOrInit(s, self.entity, ReactionsComponent)
      list == Val(s1, self.entity, ReactionsComponent)
  IN IF HasSpace(reaction) \/ HasSpace(authorId)
     THEN Throw(s1, "Error: Reaction and Author ID must not contain spaces.")
     ELSE IF ~ListIncludes(list, Pack(reaction, authorId))
     THEN Return(WithVal(s1, self.entity, ReactionsComponent,
                         ListPush(list, Pack(reaction, authorId))), Undefined)
     ELSE Return(s1, Undefined)

\* Reactions.add(reaction, authorId)
ReactionsAdd(s, self, reaction, authorId) ==
  IF HasSpace(reaction) \/ HasSpace(authorId)
  THEN Throw(s, "Error: Reaction and Author ID must not contain spaces.")
  ELSE LET raw == Pack(reaction, authorId)
           s1 == GetOrInit(s, self.entity, ReactionsComponent)
           list == Val(s1, self.entity, ReactionsComponent)
       IN IF ~ListIncludes(list, raw)
          THEN Return(WithVal(s1, self.entity, ReactionsComponent, ListPush(list, raw)), Undefined)
          ELSE Return(s1, Undefined)

\* remove with lastIndexOf in place of indexOf
ReactionsRemoveLast(s, self, reaction, authorId) ==
  IF HasSpace(reaction) \/ HasSpace(authorId)
  THEN Throw(s, "Error: Reaction and Author ID must not contain spaces.")
  ELSE LET raw == Pack(reaction, authorId)
           s1 == GetOrInit(s, self.entity, ReactionsComponent)
           list == Val(s1, self.entity, ReactionsComponent)
       IN IF ListIncludes(list, raw)
          THEN Return(WithVal(s1, self.entity, ReactionsComponent,
                              ListDelete(list, (CHOOSE i \in DOMAIN list :
                                                  list[i] = raw /\ \A j \in (i + 1)..Len(list) : list[j] # raw) - 1, 1)),
                      Undefined)
          ELSE Return(s1, Undefined)

\* Reactions.remove(reaction, authorId)
ReactionsRemove(s, self, reaction, authorId) ==
  IF HasSpace(reaction) \/ HasSpace(authorId)
  THEN Throw(s, "Error: Reaction and Author ID must not contain spaces.")
  ELSE LET raw == Pack(reaction, authorId)
           s1 == GetOrInit(s, self.entity, ReactionsComponent)
           list == Val(s1, self.entity, ReactionsComponent)
           idx == IndexOf(list, raw)
       IN IF idx # -1
          THEN Return(WithVal(s1, self.entity, ReactionsComponent, ListDelete(list, idx, 1)), Undefined)
          ELSE Return(s1, Undefined)

\* entity.getOrInit(Reactions).push(raw): a write to the raw list, past add()
RawReactionsPush(s, self, raw) ==
  LET s1 == GetOrInit(s, self.entity, ReactionsComponent)
  IN Return(WithVal(s1, self.entity, ReactionsComponent,
                    ListPush(Val(s1, self.entity, ReactionsComponent), raw)), Undefined)

\* EntityWrapper.commit()
Commit(s, self) == Return(EntityCommit(s, self.entity), Undefined)

\* get NamedEntity.name
GetName(s, self) ==
  LET s1 == GetOrInit(s, self.entity, BasicMeta)
  IN Return(s1, MapGet(Val(s1, self.entity, BasicMeta), "name"))

\* the setter writing to a map that is not the entity's component
SetNameDetached(s, self, name) == Return(s, Undefined)

\* set NamedEntity.name
SetName(s, self, name) ==
  LET s1 == GetOrInit(s, self.entity, BasicMeta)
  IN Return(WithVal(s1, self.entity, BasicMeta,
                    MapSet(Val(s1, self.entity, BasicMeta), "name", name)), Undefined)

\* get Category.channels
GetChannels(s, self) == Return(s, NewEntityList(self.peer, self.entity, Channels, "Channel"))

\* get Channel.messages
GetMessages(s, self) == Return(s, NewEntityList(self.peer, self.entity, Messages, "Message"))

\* get EntityList.length
EntityListLength(s, self) ==
  LET s1 == GetOrInit(s, self.entity, self.def)
  IN Return(s1, Len(Val(s1, self.entity, self.def)))

\* EntityList.delete()
EntityListDelete(s, self) == Return(EntityDelete(s, self.entity, self.def), Undefined)

\* undefined, where the caller expects a wrapper
NoWrapper == New("undefined", "undefined", "undefined")

\* the discrimination as the documentation words it: messages make a channel
SidebarTypeAsDocumented(s, self) ==
  IF Has(s, self.entity, Messages) THEN Return(s, "channel")
  ELSE IF Has(s, self.entity, Channels) THEN Return(s, "category")
  ELSE Throw(s, "Unknown sidebar item type")

\* get SidebarItem.type
SidebarType(s, self) ==
  IF Has(s, self.entity, Messages) THEN Return(s, "category")
  ELSE IF Has(s, self.entity, Channels) THEN Return(s, "channel")
  ELSE Throw(s, "Unknown sidebar item type")

\* asChannel without the test of the discriminant
AsChannelUnchecked(s, self) == Cast(s, self, "Channel")

\* SidebarItem.asChannel()
AsChannel(s, self) ==
  LET t == SidebarType(s, self)
  IN IF t.raised THEN t
     ELSE IF t.value = "channel" THEN Cast(t.store, self, "Channel")
     ELSE Return(t.store, NoWrapper)

\* SidebarItem.asCategory()
AsCategory(s, self) ==
  LET t == SidebarType(s, self)
  IN IF t.raised THEN t
     ELSE IF t.value = "category" THEN Cast(t.store, self, "Category")
     ELSE Return(t.store, NoWrapper)

\* no items() call was made yet
NoPending ==
  [state |-> "none", self |-> NoWrapper, ids |-> <<>>, opens |-> <<>>, order |-> <<>>]

\* the entity that peer.open(id) resolves to
EntityOf(id) == id[1]

\* EntityList.items() up to its await: the list is read once and one open is
\* issued per entry, all before any of them completes
ItemsStart(s, self) ==
  LET s1 == GetOrInit(s, self.entity, self.def)
      ids == Val(s1, self.entity, self.def)
  IN [store |-> s1,
      pending |-> [state |-> "pending", self |-> self, ids |-> ids,
                   opens |-> [i \in DOMAIN ids |-> "pending"], order |-> <<>>]]

\* the array with the wrappers in the order their opens completed
ItemsResultByCompletion(p) ==
  [k \in DOMAIN p.order |-> New(p.self.factory, p.self.peer, EntityOf(p.ids[p.order[k]]))]

\* the array Promise.all fulfils with: one wrapper per mapped entry, at the
\* entry's position
ItemsResult(p) ==
  [i \in DOMAIN p.ids |-> New(p.self.factory, p.self.peer, EntityOf(p.ids[i]))]

\* Promise.all: rejected once an open has rejected, fulfilled once all have
\* fulfilled, pending otherwise
PromiseAll(p) ==
  IF \E i \in DOMAIN p.opens : p.opens[i] = "rejected" THEN "rejected"
  ELSE IF \A i \in DOMAIN p.opens : p.opens[i] = "fulfilled" THEN "fulfilled"
  ELSE "pending"

----------------------------------------------------------------------------
(* Inputs *)

\* reaction symbols and author IDs given to add and remove
ReactionInputs == { <<"a">>, <<"constructor">>, <<"a", " ">> }
AuthorInputs == { <<>>, <<"u">>, <<"u", " ", "v">> }

\* the same, for the programs that also write the raw list
FewReactionInputs == { <<"a">>, <<"b">>, <<"a", " ", "b">> }
FewAuthorInputs == { <<"u">> }

\* admin identifiers
Uris == { <<"x">>, <<"y">>, <<"z">> }

\* entries pushed to the raw list
RawInputs == { <<"a", " ", "u">>, <<"a", " ", "u", " ", "v">> }

\* names given to entities
Names == { <<"n">>, <<"m">>, <<"Unnamed">> }

\* the wrapper kinds a sidebar entity is opened as
SidebarKinds == { "SidebarItem", "Channel", "Category" }

\* the wrapper kinds a named entity is opened as or cast to
NamedKinds == { "Space", "Category", "NamedEntity" }

----------------------------------------------------------------------------
(* Actions *)

\* the program has made a Roomy instance over a catalog entity
Init ==
  /\ op = "Roomy.init"
  /\ raised = FALSE
  /\ w \in { New("Roomy", "p1", e) : e \in Entities }
  /\ value = w
  /\ store = EmptyStore
  /\ pending = NoPending

RoomyInitAct(p, catalogId) ==
  LET r == RoomyInit(store, p, catalogId) IN Call("Roomy.init", r, r.value)

OpenAct(constructor, id) ==
  LET r == Open(store, w, constructor, id) IN Call("open", r, r.value)

CastAct(T) ==
  LET r == Cast(store, w, T) IN Call("cast", r, IF r.raised THEN w ELSE r.value)

GetSoftDeletedAct ==
  /\ IsA(w.kind, "Deletable")
  /\ Call("get softDeleted", GetSoftDeleted(store, w), w)

SetSoftDeletedAct(deleted) ==
  /\ IsA(w.kind, "Deletable")
  /\ Call("set softDeleted", SetSoftDeleted(store, w, deleted), w)

GetReactionsAct ==
  /\ IsA(w.kind, "TimelineItem")
  /\ LET r == GetReactions(store, w) IN Call("get reactions", r, r.value)

AllAct ==
  /\ IsA(w.kind, "Reactions")
  /\ Call("Reactions.all", ReactionsAll(store, w), w)

AddAct(reaction, authorId) ==
  /\ IsA(w.kind, "Reactions")
  /\ LET r == ReactionsAdd(store, w, reaction, authorId)
     IN /\ Len(Contents(r.store, w.entity, ReactionsComponent)) <= MaxLen
        /\ Call("Reactions.add", r, w)

RemoveAct(reaction, authorId) ==
  /\ IsA(w.kind, "Reactions")
  /\ Call("Reactions.remove", ReactionsRemove(store, w, reaction, authorId), w)

RawReactionsPushAct(raw) ==
  /\ Len(Contents(store, w.entity, ReactionsComponent)) < MaxLen
  /\ Call("raw reactions push", RawReactionsPush(store, w, raw), w)

AdminsPushAct(uri) ==
  /\ IsA(w.kind, "Administered")
  /\ Len(Contents(store, w.entity, Admins)) < MaxLen
  /\ Call("admins.push", AdminsPush(store, w, uri), w)

AppendAdminsFromAct(other) ==
  /\ IsA(w.kind, "Administered")
  /\ IsA(other.kind, "Administered")
  /\ LET r == AppendAdminsFrom(store, w, other)
     IN /\ Len(Contents(r.store, w.entity, Admins)) <= MaxLen
        /\ Call("appendAdminsFrom", r, w)

GetSpacesAct ==
  /\ IsA(w.kind, "Roomy")
  /\ LET r == GetSpaces(store, w) IN Call("get spaces", r, r.value)

GetImagesAct ==
  /\ IsA(w.kind, "Message")
  /\ LET r == GetImages(store, w) IN Call("get images", r, r.value)

\* the program holds an EntityList made by one of the list accessors
HoldsList == IsA(w.kind, "EntityList") /\ w.def # NoDef

IdsAct ==
  /\ HoldsList
  /\ Call("EntityList.ids", EntityListIds(store, w), w)

PushAct(item) ==
  /\ HoldsList
  /\ IsA(item.kind, w.factory)
  /\ Len(Contents(store, w.entity, w.def)) < MaxLen
  /\ Call("EntityList.push", EntityListPush(store, w, item), w)

InsertAct(index, item) ==
  /\ HoldsList
  /\ IsA(item.kind, w.factory)
  /\ Len(Contents(store, w.entity, w.def)) < MaxLen
  /\ index \in 0..Len(Contents(store, w.entity, w.def))
  /\ Call("EntityList.insert", EntityListInsert(store, w, index, item), w)

RemoveAtAct(itemIdx) ==
  /\ HoldsList
  /\ itemIdx \in 0..(Len(Contents(store, w.entity, w.def)) - 1)
  /\ Call("EntityList.remove", EntityListRemove(store, w, itemIdx), w)

\* a movable list is given positions of its entries; a list that is not
\* movable is given any numbers
MoveAct(itemIdx, newIdx) ==
  /\ HoldsList
  /\ w.def.kind = "LoroMovableList" =>
       /\ itemIdx \in 0..(Len(Contents(store, w.entity, w.def)) - 1)
       /\ newIdx \in 0..(Len(Contents(store, w.entity, w.def)) - 1)
  /\ Call("EntityList.move", EntityListMove(store, w, itemIdx, newIdx), w)

NewEntityListAct(component, constructor) ==
  LET r == Return(store, NewEntityList(w.peer, w.entity, component, constructor))
  IN Call("new EntityList", r, r.value)

CommitAct == Call("commit", Commit(store, w), w)

GetNameAct ==
  /\ IsA(w.kind, "NamedEntity")
  /\ Call("get name", GetName(store, w), w)

SetNameAct(name) ==
  /\ IsA(w.kind, "NamedEntity")
  /\ Call("set name", SetName(store, w, name), w)

GetChannelsAct ==
  /\ IsA(w.kind, "Category")
  /\ LET r == GetChannels(store, w) IN Call("get channels", r, r.value)

GetMessagesAct ==
  /\ IsA(w.kind, "Channel")
  /\ LET r == GetMessages(store, w) IN Call("get messages", r, r.value)

LengthAct ==
  /\ HoldsList
  /\ Call("get length", EntityListLength(store, w), w)

ListDeleteAct ==
  /\ HoldsList
  /\ Call("EntityList.delete", EntityListDelete(store, w), w)

TypeAct ==
  /\ IsA(w.kind, "SidebarItem")
  /\ Call("get type", SidebarType(store, w), w)

\* the program goes on with the wrapper it was given, if it was given one
AsChannelAct ==
  /\ IsA(w.kind, "SidebarItem")
  /\ LET r == AsChannel(store, w)
     IN Call("asChannel", r, IF r.raised \/ r.value = NoWrapper THEN w ELSE r.value)

AsCategoryAct ==
  /\ IsA(w.kind, "SidebarItem")
  /\ LET r == AsCategory(store, w)
     IN Call("asCategory", r, IF r.raised \/ r.value = NoWrapper THEN w ELSE r.value)

\* items() is called and suspends at its await, its opens issued
ItemsAct ==
  /\ HoldsList
  /\ pending.state # "pending"
  /\ LET r == ItemsStart(store, w)
     IN /\ op' = "EntityList.items"
        /\ raised' = FALSE
        /\ value' = Undefined
        /\ store' = r.store
        /\ pending' = r.pending
        /\ UNCHANGED w

\* the open of entry i completes: fulfilled when ok, rejected otherwise
OpenSettleAct(i, ok) ==
  /\ pending.state \in {"pending", "rejected"}
  /\ i \in DOMAIN pending.opens
  /\ pending.opens[i] = "pending"
  /\ op' = "peer.open settled"
  /\ raised' = ~ok
  /\ value' = pending.ids[i]
  /\ pending' = [pending EXCEPT !.opens[i] = IF ok THEN "fulfilled" ELSE "rejected",
                                !.order = Append(@, i)]
  /\ UNCHANGED <<w, store>>

\* the promise of items() settles as Promise.all does
ItemsSettleAct ==
  /\ pending.state = "pending"
  /\ PromiseAll(pending) # "pending"
  /\ op' = "items settled"
  /\ raised' = (PromiseAll(pending) = "rejected")
  /\ value' = IF PromiseAll(pending) = "rejected" THEN <<"open failed">>
               ELSE ItemsResult(pending)
  /\ pending' = [pending EXCEPT !.state = PromiseAll(pending)]
  /\ UNCHANGED <<w, store>>

DoRoomyInit == \E p \in Peers, e \in Entities : RoomyInitAct(p, e)

DoOpen == \E K \in Kinds, e \in Entities : OpenAct(K, e)

DoOpenMessage == \E e \in Entities : OpenAct("Message", e)

DoGetReactions == GetReactionsAct

DoAll == AllAct

DoAdd == \E reaction \in ReactionInputs, authorId \in AuthorInputs : AddAct(reaction, authorId)

DoRemove == \E reaction \in ReactionInputs, authorId \in AuthorInputs : RemoveAct(reaction, authorId)

DoAddFew == \E reaction \in FewReactionInputs, authorId \in FewAuthorInputs : AddAct(reaction, authorId)

DoRemoveFew == \E reaction \in FewReactionInputs, authorId \in FewAuthorInputs : RemoveAct(reaction, authorId)

DoOpenSpace == \E e \in Entities : OpenAct("Space", e)

DoAdminsPush == \E uri \in Uris : AdminsPushAct(uri)

DoAppendAdminsFrom == \E e \in Entities : AppendAdminsFromAct(New("Space", w.peer, e))

DoGetSpaces == GetSpacesAct

DoGetImages == GetImagesAct

DoIds == IdsAct

DoPush == \E e \in Entities : PushAct(New(w.factory, w.peer, e))

DoInsert == \E index \in 0..MaxLen, e \in Entities : InsertAct(index, New(w.factory, w.peer, e))

DoRemoveAt == \E itemIdx \in 0..MaxLen : RemoveAtAct(itemIdx)

DoMove == \E itemIdx \in 0..MaxLen, newIdx \in 0..MaxLen : MoveAct(itemIdx, newIdx)

DoRawReactionsPush == \E raw \in RawInputs : RawReactionsPushAct(raw)

DoCast == \E T \in Kinds : CastAct(T)

DoGetSoftDeleted == GetSoftDeletedAct

DoSetSoftDeleted == \E deleted \in BOOLEAN : SetSoftDeletedAct(deleted)

DoOpenFaulty == \E K \in {"Message", "SidebarItem"}, e \in Entities : OpenAct(K, e)

DoNewReactionsList == NewEntityListAct(ReactionsComponent, "Message")

DoMoveAny == \E itemIdx \in -1..MaxLen, newIdx \in {-1, 0, MaxLen} : MoveAct(itemIdx, newIdx)

DoType == TypeAct

DoAsChannel == AsChannelAct

DoAsCategory == AsCategoryAct

DoOpenSidebar == \E K \in SidebarKinds, e \in Entities : OpenAct(K, e)

DoCastSidebar == \E T \in SidebarKinds : CastAct(T)

DoGetChannels == GetChannelsAct

DoGetMessages == GetMessagesAct

DoLength == LengthAct

DoListDelete == ListDeleteAct

DoOpenNamed == \E K \in NamedKinds, e \in Entities : OpenAct(K, e)

DoCastNamed == \E T \in NamedKinds : CastAct(T)

DoGetName == GetNameAct

DoSetName == \E name \in Names : SetNameAct(name)

DoCommit == CommitAct

DoOpenRoomy == \E e \in Entities : OpenAct("Roomy", e)

DoItems == ItemsAct

DoOpenSettle == \E i \in 1..MaxLen, ok \in BOOLEAN : OpenSettleAct(i, ok)

DoOpenFulfil == \E i \in 1..MaxLen : OpenSettleAct(i, TRUE)

DoItemsSettle == ItemsSettleAct

NextWrappers == DoRoomyInit \/ DoOpen \/ DoCast \/ DoGetSoftDeleted \/ DoSetSoftDeleted

SpecWrappers == Init /\ [][NextWrappers]_vars

\* a program that reacts through Reactions.add/remove/all only
NextReactions == DoOpenMessage \/ DoGetReactions \/ DoAdd \/ DoRemove \/ DoAll

SpecReactions == Init /\ [][NextReactions]_vars

\* a program that also writes the raw reactions list
NextReactionsRaw ==
  DoOpenMessage \/ DoGetReactions \/ DoAddFew \/ DoRemoveFew \/ DoAll \/ DoRawReactionsPush

SpecReactionsRaw == Init /\ [][NextReactionsRaw]_vars

\* a program that edits admin lists
NextAdmins == DoOpenSpace \/ DoAdminsPush \/ DoAppendAdminsFrom

SpecAdmins == Init /\ [][NextAdmins]_vars

\* a program that edits the spaces of Roomy instances and the images of messages
NextLists ==
  \/ DoOpenMessage \/ DoGetSpaces \/ DoGetImages
  \/ DoIds \/ DoPush \/ DoInsert \/ DoRemoveAt \/ DoMove

SpecLists == Init /\ [][NextLists]_vars

\* a program that reaches move on a list that is not movable, and asks the
\* sidebar kind of entities that have none
NextFaults ==
  \/ DoOpenFaulty \/ DoNewReactionsList \/ DoPush \/ DoMoveAny
  \/ DoType \/ DoAsChannel \/ DoAsCategory

SpecFaults == Init /\ [][NextFaults]_vars

\* a program that reads sidebar entities
NextSidebar ==
  \/ DoOpenSidebar \/ DoCastSidebar \/ DoGetChannels \/ DoGetMessages
  \/ DoIds \/ DoLength \/ DoListDelete
  \/ DoType \/ DoAsChannel \/ DoAsCategory \/ DoGetName \/ DoGetSoftDeleted

SpecSidebar == Init /\ [][NextSidebar]_vars

\* a program that names entities
NextNames == DoOpenNamed \/ DoCastNamed \/ DoGetName \/ DoSetName \/ DoCommit

SpecNames == Init /\ [][NextNames]_vars

\* a program that edits the spaces of Roomy instances
NextListOps ==
  \/ DoOpenRoomy \/ DoGetSpaces \/ DoIds \/ DoLength
  \/ DoPush \/ DoInsert \/ DoRemoveAt \/ DoListDelete

SpecListOps == Init /\ [][NextListOps]_vars

\* a program that resolves the spaces of a Roomy instance while it edits them
NextItems ==
  \/ DoGetSpaces \/ DoPush \/ DoRemoveAt
  \/ DoItems \/ DoOpenSettle \/ DoItemsSettle

SpecItems == Init /\ [][NextItems]_vars

\* the same program against a document store where every open succeeds
NextResolve ==
  \/ DoGetSpaces \/ DoPush \/ DoRemoveAt
  \/ DoItems \/ DoOpenFulfil \/ DoItemsSettle

SpecResolve == Init /\ [][NextResolve]_vars

\* every step of the model
Next ==
  \/ NextWrappers \/ NextReactions \/ NextReactionsRaw \/ NextAdmins \/ NextLists
  \/ NextFaults \/ NextSidebar \/ NextNames \/ NextListOps \/ NextItems
  \/ NextResolve

Spec == Init /\ [][Next]_vars

----------------------------------------------------------------------------
(* Claims about the wrapper hierarchy, checked under SpecWrappers *)

\* C1: for every wrapper w and every target kind T, w.cast(T) returns without
\* raising, changes no component of any entity, and returns a wrapper of kind
\* T over the same entity and the same peer (w.cast(T).id = w.id), whatever
\* components the entity has.
CastAlwaysSucceeds ==
  [][op' = "cast" =>
       \A T \in Kinds :
         CastAct(T) =>
           /\ ~raised'
           /\ store' = store
           /\ value'.kind = T
           /\ value'.entity = w.entity
           /\ value'.peer = w.peer
           /\ Id(value') = Id(w)]_vars

\* a SoftDeleted-only entity, viewed through a Message, was cast to a Channel
CastWitness ==
  /\ op = "cast"
  /\ ~raised
  /\ value.kind = "Channel"
  /\ value.peer = "p2"
  /\ Has(store, value.entity, SoftDeleted)
  /\ ~Has(store, value.entity, Messages)
  /\ \E e \in Entities : DOMAIN store[e] = {}

\* the store with the component under identifier id taken off every entity
Without(s, id) == [e \in Entities |-> [c \in DOMAIN s[e] \ {id} |-> s[e][c]]]

----------------------------------------------------------------------------
(* Claims about the Reactions codec *)

\* the reactions list of an entity
ReactionsList(e) == Contents(store, e, ReactionsComponent)

\* the inputs add and remove accept
SpaceFree(S) == { x \in S : ~HasSpace(x) }

\* how often x occurs in list l
Count(l, x) == Cardinality({ i \in DOMAIN l : l[i] = x })

\* C3: from an empty reactions list, after any sequence of add and remove
\* calls, accepted or rejected, the list of every entity holds packed
\* space-free pairs only and each of them at most once; add of a pair that is
\* in the list returns without raising and changes nothing.
ReactionsUnique ==
  /\ [](\A e \in Entities :
          /\ \A i \in DOMAIN ReactionsList(e) :
               \E r \in SpaceFree(ReactionInputs), a \in SpaceFree(AuthorInputs) :
                 ReactionsList(e)[i] = Pack(r, a)
          /\ \A r \in SpaceFree(ReactionInputs), a \in SpaceFree(AuthorInputs) :
               Count(ReactionsList(e), Pack(r, a)) <= 1)
  /\ [][\A r \in SpaceFree(ReactionInputs), a \in SpaceFree(AuthorInputs) :
          (op' = "Reactions.add" /\ AddAct(r, a)
             /\ ListIncludes(ReactionsList(w.entity), Pack(r, a))) =>
            (~raised' /\ store' = store)]_vars

\* add was called with a pair that is in a list of three entries
ReactionsUniqueWitness ==
  /\ op = "Reactions.add"
  /\ ~raised
  /\ Len(ReactionsList(w.entity)) = 3
  /\ \E e \in Entities : Len(ReactionsList(e)) = 1

\* C4: add and remove raise whenever the symbol or the actor contains a
\* space, and the rejected call leaves every component of every entity as it
\* was, the set of components present included.
ReactionsRejectSpaces ==
  [][\A r \in ReactionInputs, a \in AuthorInputs :
       (op' \in {"Reactions.add", "Reactions.remove"} /\ (HasSpace(r) \/ HasSpace(a))) =>
         /\ AddAct(r, a) => (raised' /\ store' = store)
         /\ RemoveAct(r, a) => (raised' /\ store' = store)]_vars

\* a call was rejected on an entity that has no Reactions component, and
\* another on an entity whose list has entries
ReactionsRejectWitness ==
  /\ op \in {"Reactions.add", "Reactions.remove"}
  /\ raised
  /\ ~Has(store, w.entity, ReactionsComponent)
  /\ \E e \in Entities : Len(ReactionsList(e)) >= 2

RECURSIVE RemoveFirst(_, _)
\* list l without its first entry equal to x
RemoveFirst(l, x) ==
  IF l = <<>> THEN <<>>
  ELSE IF Head(l) = x THEN Tail(l)
  ELSE <<Head(l)>> \o RemoveFirst(Tail(l), x)

\* C5: for a space-free symbol and actor, remove returns without raising,
\* deletes the first entry equal to "symbol actor" and nothing else (the
\* other entries keep their order; without such an entry the contents stay
\* as they are), and touches no other component; removing a pair right after
\* an add that appended it gives back the list as it was before the add.
RemoveDeletesFirstMatch ==
  [][\A r \in SpaceFree(FewReactionInputs), a \in SpaceFree(FewAuthorInputs) :
       /\ (op' = "Reactions.remove" /\ RemoveAct(r, a)) =>
            /\ ~raised'
            /\ ReactionsList(w.entity)' = RemoveFirst(ReactionsList(w.entity), Pack(r, a))
            /\ (~ListIncludes(ReactionsList(w.entity), Pack(r, a)) =>
                  ReactionsList(w.entity)' = ReactionsList(w.entity))
            /\ Without(store', ReactionsComponent.id) = Without(store, ReactionsComponent.id)
            /\ \A e \in Entities \ {w.entity} : store'[e] = store[e]
       /\ (op' = "Reactions.add" /\ AddAct(r, a)
             /\ ~ListIncludes(ReactionsList(w.entity), Pack(r, a))) =>
            RemoveFirst(ReactionsList(w.entity)', Pack(r, a)) = ReactionsList(w.entity)]_vars

\* remove was called on a list that held the pair twice around another entry
RemoveWitness ==
  /\ op = "Reactions.remove"
  /\ ~raised
  /\ ReactionsList(w.entity) = << <<"a", " ", "u", " ", "v">>, <<"a", " ", "u">> >>

\* the text of raw before its first space, and all the text after it
SymbolOf(raw) == SubSeq(raw, 1, FirstSpace(raw) - 1)
ActorOf(raw) == SubSeq(raw, FirstSpace(raw) + 1, Len(raw))

\* C6: all() decodes every entry of the backing list by splitting it at its
\* first space only: the actor, the whole remainder after the first space, is
\* reported in the set of the symbol, also for raw entries with more spaces.
AllSplitsAtFirstSpace ==
  [][(AllAct /\ ~raised') =>
       \A i \in DOMAIN ReactionsList(w.entity) :
         LET raw == ReactionsList(w.entity)[i]
         IN /\ SymbolOf(raw) \in DOMAIN value'
            /\ ActorOf(raw) \in value'[SymbolOf(raw)]]_vars

\* C7: after any sequence of successful add and remove calls with space-free
\* strings, among them "constructor", all() returns without raising, a is in
\* all()[s] exactly when "s a" is in the list, and no group is empty.
AllRoundTrip ==
  [][AllAct =>
       /\ ~raised'
       /\ \A s \in SpaceFree(ReactionInputs), a \in SpaceFree(AuthorInputs) :
            (s \in DOMAIN value' /\ a \in value'[s])
              <=> ListIncludes(ReactionsList(w.entity), Pack(s, a))
       /\ \A s \in DOMAIN value' : value'[s] # {}]_vars

----------------------------------------------------------------------------
(* Claims about the admin union and EntityList *)

RECURSIVE OrderedUnion(_, _)
\* list a followed by the entries of b that are not in it, each once, in the
\* order of their first occurrence in b
OrderedUnion(a, b) ==
  IF b = <<>> THEN a
  ELSE IF ListIncludes(a, Head(b)) THEN OrderedUnion(a, Tail(b))
  ELSE OrderedUnion(Append(a, Head(b)), Tail(b))

\* C9: after A.appendAdminsFrom(B) the admins of A are A's previous list
\* followed by the identifiers of B that were not in it, each exactly once, in
\* the order of their first occurrence in B, also when B lists an identifier
\* more than once and when B is A.
AppendIsOrderedUnion ==
  [][\A e \in Entities :
       (op' = "appendAdminsFrom" /\ AppendAdminsFromAct(New("Space", w.peer, e))) =>
         /\ ~raised'
         /\ Contents(store', w.entity, Admins)
              = OrderedUnion(Contents(store, w.entity, Admins), Contents(store, e, Admins))]_vars

\* C2: no two schemas of the catalog share an identifier, so a push through
\* the accessor of one schema changes neither the presence nor the contents
\* of the component any other schema's accessor reads, on any entity.
PushLeavesOtherSchemas ==
  [][\A e \in Entities :
       (op' = "EntityList.push" /\ PushAct(New(w.factory, w.peer, e))) =>
         \A d \in Catalog :
           d.name # w.def.name =>
             \A x \in Entities :
               /\ Has(store', x, d) = Has(store, x, d)
               /\ Contents(store', x, d) = Contents(store, x, d)]_vars

\* the list an EntityList wrapper views
ListOf(s, self) == Contents(s, self.entity, self.def)

\* C10: on a movable list, for all valid from and to, move(from, to) returns
\* without raising, keeps the length and the multiset of IDs, puts the entry
\* that was at from at to, shifts the entries between the two by one
\* position, and leaves every other entry, list and entity as it was.
MoveRelocatesOneEntry ==
  [][\A from \in 0..MaxLen, to \in 0..MaxLen :
       (op' = "EntityList.move" /\ w.def.kind = "LoroMovableList" /\ MoveAct(from, to)) =>
         LET old == ListOf(store, w)
             new == ListOf(store', w)
         IN /\ ~raised'
            /\ Len(new) = Len(old)
            /\ \A e \in Entities : Count(new, IdStr(e)) = Count(old, IdStr(e))
            /\ new[to + 1] = old[from + 1]
            /\ \A i \in 1..Len(old) :
                 i # to + 1 =>
                   new[i] = IF from < to /\ from + 1 <= i /\ i <= to THEN old[i + 1]
                            ELSE IF to < from /\ to + 2 <= i /\ i <= from + 1 THEN old[i - 1]
                            ELSE old[i]
            /\ Without(store', w.def.id) = Without(store, w.def.id)
            /\ \A e \in Entities \ {w.entity} : store'[e] = store[e]]_vars

\* a move has carried the only e2 of a three-entry list from one end to the other
MoveWitness ==
  /\ op = "EntityList.move"
  /\ ~raised
  /\ w.def.kind = "LoroMovableList"
  /\ ListOf(store, w) = <<IdStr("e1"), IdStr("e1"), IdStr("e2")>>

----------------------------------------------------------------------------
(* Claims about faults, checked under SpecFaults *)

\* C11: on an EntityList over the immovable list kind, move(from, to) raises
\* for all index arguments and leaves the entries of every list, this one
\* included, in the order they were.
MoveRejectedOnImmovable ==
  [][\A from \in -1..MaxLen, to \in {-1, 0, MaxLen} :
       (op' = "EntityList.move" /\ w.def.kind # "LoroMovableList" /\ MoveAct(from, to)) =>
         /\ raised'
         /\ value' = "Cannot use move function in an immovable list."
         /\ ListOf(store', w) = ListOf(store, w)
         /\ Without(store', w.def.id) = Without(store, w.def.id)]_vars

\* move was rejected on an immovable list of two different entries
MoveRejectedWitness ==
  /\ op = "EntityList.move"
  /\ raised
  /\ w.def.kind = "LoroList"
  /\ ListOf(store, w) = <<IdStr("e1"), IdStr("e2")>>

\* C12: a move, SidebarItem.type, asChannel or asCategory call that raises
\* leaves every entity as it was, the set of components present on it
\* included: a move rejected on an immovable list whose component is absent
\* does not materialize the component.
FaultsLeaveEntityUnchanged ==
  [][(raised' /\ op' \in {"EntityList.move", "get type", "asChannel", "asCategory"}) =>
       store' = store]_vars

----------------------------------------------------------------------------
(* Claims about the sidebar discrimination, checked under SpecSidebar *)

ReturnsWrapper(r) == ~r.raised /\ r.value # NoWrapper

\* C14: when type returns a value other than the requested kind, asChannel
\* (asCategory) returns the empty result without raising; when it returns
\* the requested kind, the call returns a wrapper of that kind over the same
\* entity; in every entity state at most one of the two returns a wrapper.
AsKindFollowsDiscriminant ==
  /\ [](\A e \in Entities :
          ~(/\ ReturnsWrapper(AsChannel(store, New("SidebarItem", "p1", e)))
            /\ ReturnsWrapper(AsCategory(store, New("SidebarItem", "p1", e)))))
  /\ [][/\ (AsChannelAct /\ ~SidebarType(store, w).raised) =>
             /\ ~raised'
             /\ store' = store
             /\ IF SidebarType(store, w).value = "channel"
                THEN value' = New("Channel", w.peer, w.entity) /\ Id(value') = Id(w)
                ELSE value' = NoWrapper
        /\ (AsCategoryAct /\ ~SidebarType(store, w).raised) =>
             /\ ~raised'
             /\ store' = store
             /\ IF SidebarType(store, w).value = "category"
                THEN value' = New("Category", w.peer, w.entity) /\ Id(value') = Id(w)
                ELSE value' = NoWrapper]_vars

\* asChannel returned the empty result on an entity with both components,
\* while another entity is a channel
AsKindWitness ==
  /\ op = "asChannel"
  /\ ~raised
  /\ value = NoWrapper
  /\ Has(store, w.entity, Messages)
  /\ Has(store, w.entity, Channels)
  /\ \E e \in Entities :
       ReturnsWrapper(AsChannel(store, New("SidebarItem", "p1", e)))

\* C15: asChannel returns undefined on an entity without Messages, so a
\* returned Channel views an entity that has Messages; asCategory returns
\* undefined on an entity without Channels, so a returned Category views an
\* entity that has Channels.
AsKindViewsDocumentedComponent ==
  [][/\ (AsChannelAct /\ ~raised' /\ value' # NoWrapper) =>
          Has(store', value'.entity, Messages)
     /\ (AsCategoryAct /\ ~raised' /\ value' # NoWrapper) =>
          Has(store', value'.entity, Channels)]_vars

\* the calls that only read
ReadOps ==
  { "get type", "asChannel", "asCategory", "get channels", "get messages",
    "EntityList.ids", "get length", "get name", "get softDeleted", "cast", "open" }

\* what a SidebarItem over entity e answers when asked its type
TypeOf(s, e) ==
  LET r == SidebarType(s, New("SidebarItem", "p1", e)) IN <<r.raised, r.value>>

\* C20: if type returns a value for an entity, then after a read (type,
\* asChannel, asCategory, channels.ids(), channels.length, messages.ids(),
\* messages.length, name, softDeleted) type returns the same value and the
\* set of components present on the entity is the same.
ReadsKeepSidebarKind ==
  [][op' \in ReadOps =>
       \A e \in Entities :
         ~SidebarType(store, New("SidebarItem", "p1", e)).raised =>
           /\ DOMAIN store'[e] = DOMAIN store[e]
           /\ TypeOf(store', e) = TypeOf(store, e)]_vars

----------------------------------------------------------------------------
(* Claims about items(), checked under SpecItems and SpecResolve *)

\* C16: when the promise of items() settles, the wrapper of every entry
\* whose open succeeded is delivered to the caller, also when the open of
\* another entry failed.
ItemsDeliversResolvedEntries ==
  [][ItemsSettleAct =>
       \A i \in DOMAIN pending.ids :
         pending.opens[i] = "fulfilled" =>
           /\ ~raised'
           /\ value'[i] = New(pending.self.factory, pending.self.peer, EntityOf(pending.ids[i]))]_vars

\* C17: items() reads the list without changing it; when all its opens
\* succeed it returns an array as long as the list was at the call, whose
\* i-th element wraps the entity whose ID was at position i then, whatever
\* the order the opens completed in and whatever was pushed or removed
\* meanwhile.
ItemsKeepsListOrder ==
  [][/\ ItemsAct =>
          /\ pending'.ids = ListOf(store, w)
          /\ pending'.self = w
          /\ ListOf(store', w) = ListOf(store, w)
          /\ Without(store', w.def.id) = Without(store, w.def.id)
          /\ \A e \in Entities \ {w.entity} : store'[e] = store[e]
     /\ (pending.state = "pending" /\ op' # "EntityList.items") =>
          /\ pending'.ids = pending.ids
          /\ pending'.self = pending.self
     /\ (ItemsSettleAct /\ \A i \in DOMAIN pending.opens : pending.opens[i] = "fulfilled") =>
          /\ ~raised'
          /\ store' = store
          /\ Len(value') = Len(pending.ids)
          /\ \A i \in DOMAIN pending.ids :
               /\ value'[i].entity = EntityOf(pending.ids[i])
               /\ Id(value'[i]) = pending.ids[i]
               /\ value'[i].kind = pending.self.factory
               /\ value'[i].peer = pending.self.peer]_vars

\* items() returned three wrappers whose opens completed last entry first,
\* over a list that was edited in the meantime
ItemsWitness ==
  /\ op = "items settled"
  /\ ~raised
  /\ pending.ids = <<IdStr("e1"), IdStr("e2"), IdStr("e2")>>
  /\ pending.order = <<3, 1, 2>>
  /\ ListOf(store, pending.self) # pending.ids

----------------------------------------------------------------------------
(* Claims about names, checked under SpecNames *)

\* the name stored on entity e
StoredName(s, e) == MapGet(Contents(s, e, BasicMeta), "name")

\* C18: reading name on an entity without BasicMeta returns "Unnamed";
\* reading it after an assignment of v, through any wrapper over the entity,
\* casts included, with or without a commit, returns v until the next
\* assignment: a read returns the stored name and keeps it, an assignment
\* stores its value, and no other call changes a stored name.
NameIsLastAssigned ==
  [][/\ GetNameAct =>
          /\ ~raised'
          /\ value' = IF Has(store, w.entity, BasicMeta)
                       THEN StoredName(store, w.entity) ELSE <<"Unnamed">>
          /\ StoredName(store', w.entity) = value'
     /\ \A v \in Names :
          SetNameAct(v) =>
            /\ ~raised'
            /\ StoredName(store', w.entity) = v
            /\ \A e \in Entities \ {w.entity} : store'[e] = store[e]
     /\ op' # "set name" =>
          \A e \in Entities :
            Has(store, e, BasicMeta) =>
              /\ Has(store', e, BasicMeta)
              /\ StoredName(store', e) = StoredName(store, e)]_vars

\* the name n was read through a Category while the other entity has another
\* name
NameWitness ==
  /\ op = "get name"
  /\ value = <<"n">>
  /\ w.kind = "Category"
  /\ \E e \in Entities : StoredName(store, e) = <<"m">>

----------------------------------------------------------------------------
(* Claims about the list operations, checked under SpecListOps *)

\* C19: push appends the item's ID, insert places it at index and shifts the
\* entries from index on by one, remove deletes the one entry at index,
\* length is the number of IDs ids() returns, delete removes the list
\* component so that ids() is empty afterwards, and none of them changes a
\* component other than the list's own.
ListOpsEditOneEntry ==
  [][/\ \A e \in Entities :
          PushAct(New(w.factory, w.peer, e)) =>
            /\ ~raised'
            /\ ListOf(store', w) = Append(ListOf(store, w), IdStr(e))
            /\ Without(store', w.def.id) = Without(store, w.def.id)
            /\ \A x \in Entities \ {w.entity} : store'[x] = store[x]
     /\ \A index \in 0..MaxLen, e \in Entities :
          InsertAct(index, New(w.factory, w.peer, e)) =>
            /\ ~raised'
            /\ Len(ListOf(store', w)) = Len(ListOf(store, w)) + 1
            /\ ListOf(store', w)[index + 1] = IdStr(e)
            /\ \A i \in 1..Len(ListOf(store, w)) :
                 ListOf(store', w)[IF i <= index THEN i ELSE i + 1] = ListOf(store, w)[i]
            /\ Without(store', w.def.id) = Without(store, w.def.id)
            /\ \A x \in Entities \ {w.entity} : store'[x] = store[x]
     /\ \A itemIdx \in 0..MaxLen :
          RemoveAtAct(itemIdx) =>
            /\ ~raised'
            /\ Len(ListOf(store', w)) = Len(ListOf(store, w)) - 1
            /\ \A i \in 1..Len(ListOf(store', w)) :
                 ListOf(store', w)[i] = ListOf(store, w)[IF i <= itemIdx THEN i ELSE i + 1]
            /\ Without(store', w.def.id) = Without(store, w.def.id)
            /\ \A x \in Entities \ {w.entity} : store'[x] = store[x]
     /\ LengthAct =>
          /\ ~raised'
          /\ value' = Len(EntityListIds(store, w).value)
          /\ ListOf(store', w) = ListOf(store, w)
     /\ ListDeleteAct =>
          /\ ~raised'
          /\ ~Has(store', w.entity, w.def)
          /\ EntityListIds(store', w).value = <<>>
          /\ Without(store', w.def.id) = Without(store, w.def.id)
          /\ \A x \in Entities \ {w.entity} : store'[x] = store[x]]_vars

\* an entry was removed and two entries with one ID are left, while the
\* other entity holds a list of its own
ListOpsWitness ==
  /\ op = "EntityList.remove"
  /\ ListOf(store, w) = <<IdStr("e1"), IdStr("e1")>>
  /\ \E e \in Entities \ {w.entity} : Len(Contents(store, e, w.def)) = 3

====
